---- MODULE Spec2Model ----
(***************************************************************************)
(* MatchAborter (src/src/plugins/MatchAborter.ts): the abort coordinator   *)
(* of a lobby.  The plugin is driven by the lobby's events; each action    *)
(* below is the lobby's own bookkeeping for one event followed by the      *)
(* whole handler the plugin registered for it.  Handlers are sequential    *)
(* code, so they are operators from a state record to a state record.      *)
(***************************************************************************)
EXTENDS Integers, FiniteSets, Sequences, TLC

\* ---- bounds -------------------------------------------------------------
NumPlayers == 2
MaxTimers == 3
MaxAborts == 2
MaxMapId == 2
MaxChanges == 3
MaxUpdates == 5
MaxPopulation == 8
MaxDen == 5
MaxMin == 2

\* ---- values -------------------------------------------------------------
Players == 1..NumPlayers
NoPlayer == 0
TimerIds == 1..MaxTimers
Null == 0
NoTimer == MaxTimers + 1
Half == [num |-> 1, den |-> 2]
FourFifths == [num |-> 4, den |-> 5]
Whole == [num |-> 1, den |-> 1]
VoteRates == {Half, Whole}
AutoAbortRates == {Half, FourFifths}
Delays == {0, 30000}
Commands == {"!abort", "*abort", "!skip"}
Authorities == 0..2
VoteMins == {0, 2}
MatchAborterOption == [vote_rate : VoteRates, vote_min : VoteMins, auto_abort_rate : AutoAbortRates, auto_abort_delay_ms : Delays]

VARIABLES
  option,          \* MatchAborter.option
  players,         \* lobby.players
  host,            \* lobby.host
  isMatching,      \* lobby.isMatching
  playersInGame,   \* lobby.playersInGame
  playersFinished, \* lobby.playersFinished
  abortCount,      \* number of lobby.AbortMatch() calls since the last match start
  voters,          \* voting: the roster
  votes,           \* voting: the voters who voted
  abortTimer,      \* MatchAborter.abortTimer (Null or a timer id)
  pending,         \* runtime: timers scheduled with setTimeout, neither run nor cleared
  stepAborts,      \* history: lobby.AbortMatch() calls made by the last event
  stepMessages,    \* history: lobby.SendMessage() calls made by the last event
  stepArms,        \* history: setTimeout calls made by the last event
  stepStops,       \* history: clearTimeout calls made by the last event
  ev,              \* history: the kind of the last event
  canRecast,       \* MapRecaster.canRecast
  mapId,           \* lobby.mapId
  sent,            \* history: the chat messages the recaster sent in the last event
  recasts,         \* history: number of recast messages sent so far
  changes,         \* history: number of BeatmapChanged responses so far
  updates,         \* history: number of !update commands so far
  spent            \* history: a recast was sent since the last BeatmapChanged (or construction)

vars == <<option, players, host, isMatching, playersInGame, playersFinished, abortCount, voters, votes, abortTimer, pending, stepAborts, stepMessages, stepArms, stepStops, ev, canRecast, mapId, sent, recasts, changes, updates, spent>>

Max(a, b) == IF a >= b THEN a ELSE b

\* numbers are exact rationals num/den; for every rate p/q with q <= 100 and every
\* n <= 16 (a full lobby) Math.ceil(n * rate) in the code's floating point has the same value
Times(n, rate) == [num |-> n * rate.num, den |-> rate.den]

FromInt(m) == [num |-> m, den |-> 1]

MathMax(a, b) == IF a.num * b.den >= b.num * a.den THEN a ELSE b

MathCeil(x) == (x.num + x.den - 1) \div x.den

\* Math.ceil(n * rate)
Ceil(n, rate) == MathCeil(Times(n, rate))

\* the state a handler runs on; the step counters start at 0
Cur == [players |-> players, host |-> host, isMatching |-> isMatching, playersInGame |-> playersInGame, playersFinished |-> playersFinished, abortCount |-> abortCount, voters |-> voters, votes |-> votes, abortTimer |-> abortTimer, pending |-> pending, stepAborts |-> 0, stepMessages |-> 0, stepArms |-> 0, stepStops |-> 0]

\* ---- VoteCounter (this.voting) -------------------------------------------
required(s) == Max(Ceil(Cardinality(s.voters), option.vote_rate), option.vote_min)

count(s) == Cardinality(s.votes)

passed(s) == count(s) > 0 /\ count(s) >= required(s)

VoteAccepted(s, player) == player \in s.voters /\ player \notin s.votes

Vote(s, player) == IF VoteAccepted(s, player) THEN [s EXCEPT !.votes = @ \cup {player}] ELSE s

AddVoter(s, player) == [s EXCEPT !.voters = @ \cup {player}]

RemoveVoter(s, player) == [s EXCEPT !.voters = @ \ {player}, !.votes = @ \ {player}]

RemoveAllVoters(s) == [s EXCEPT !.voters = {}, !.votes = {}]

Clear(s) == [s EXCEPT !.votes = {}]

\* ---- the lobby's methods the plugin calls -----------------------------------
AbortMatch(s) == [s EXCEPT !.abortCount = @ + 1, !.stepAborts = @ + 1]

SendMessage(s) == [s EXCEPT !.stepMessages = @ + 1]

\* ---- MatchAborter ------------------------------------------------------
\* clearTimeout: the runtime unschedules the timer; its callback never runs
clearTimeout(s, timer) == [s EXCEPT !.pending = @ \ {timer}, !.stepStops = @ + 1]

stopTimerNoClear(s) ==
  IF s.abortTimer # Null THEN [s EXCEPT !.abortTimer = Null] ELSE s

stopTimer(s) ==
  IF s.abortTimer # Null THEN [clearTimeout(s, s.abortTimer) EXCEPT !.abortTimer = Null] ELSE s

doAbortNoStop(s) == AbortMatch(s)

doAbort(s) == AbortMatch(stopTimer(s))

\* a timer object that is not scheduled; NoTimer when MaxTimers are scheduled
FreshTimer(s) == IF TimerIds \ s.pending = {} THEN NoTimer ELSE CHOOSE t \in TimerIds \ s.pending : \A u \in TimerIds \ s.pending : t <= u

\* setTimeout: a fresh timer is scheduled and the handle to it is stored
setTimeout(s) == [s EXCEPT !.abortTimer = FreshTimer(s), !.pending = @ \cup {FreshTimer(s)}, !.stepArms = @ + 1]

startTimerNoStop(s) ==
  IF option.auto_abort_delay_ms = 0 THEN s ELSE setTimeout(s)

startTimerNoDisable(s) == setTimeout(stopTimer(s))

startTimer(s) ==
  IF option.auto_abort_delay_ms = 0 THEN s ELSE setTimeout(stopTimer(s))

voteRequiredFloor(s) == Max((Cardinality(s.playersInGame) * option.vote_rate.num) \div option.vote_rate.den, option.vote_min)

voteRequired(s) == MathCeil(MathMax(Times(Cardinality(s.playersInGame), option.vote_rate), FromInt(option.vote_min)))

autoAbortRequired(s) == MathCeil(Times(Cardinality(s.playersInGame), option.auto_abort_rate))

checkAutoAbortRearm(s) ==
  IF autoAbortRequired(s) <= Cardinality(s.playersFinished) THEN startTimer(s) ELSE s

checkAutoAbortFireWhenMet(s) ==
  IF autoAbortRequired(s) <= Cardinality(s.playersFinished)
  THEN IF s.abortTimer = Null THEN startTimer(s) ELSE doAbort(s)
  ELSE s

checkAutoAbort(s) ==
  IF s.abortTimer = Null
  THEN IF autoAbortRequired(s) <= Cardinality(s.playersFinished) THEN startTimer(s) ELSE s
  ELSE s

checkVoteCountAnyVote(s, showMessage) ==
  LET m == IF count(s) # 0 /\ showMessage THEN SendMessage(s) ELSE s
  IN IF count(m) # 0 THEN doAbort(m) ELSE m

checkVoteCount(s, showMessage) ==
  LET m == IF count(s) # 0 /\ showMessage THEN SendMessage(s) ELSE s
  IN IF passed(m) THEN doAbort(m) ELSE m

vote(s, player) ==
  IF passed(s) THEN s
  ELSE IF VoteAccepted(s, player) THEN checkVoteCount(Vote(s, player), TRUE) ELSE s

onPlayerLeftNoVoteCheck(s, player) ==
  IF ~s.isMatching THEN s
  ELSE LET a == checkAutoAbort(RemoveVoter(s, player))
       IN IF Cardinality(a.players) = 0 THEN stopTimer(Clear(a)) ELSE a

onPlayerLeftNoAutoCheck(s, player) ==
  IF ~s.isMatching THEN s
  ELSE LET a == checkVoteCount(RemoveVoter(s, player), FALSE)
       IN IF Cardinality(a.players) = 0 THEN stopTimer(Clear(a)) ELSE a

onPlayerLeftNoEmptyCheck(s, player) ==
  IF ~s.isMatching THEN s
  ELSE checkAutoAbort(checkVoteCount(RemoveVoter(s, player), FALSE))

onPlayerLeft(s, player) ==
  IF ~s.isMatching THEN s
  ELSE LET a == checkAutoAbort(checkVoteCount(RemoveVoter(s, player), FALSE))
       IN IF Cardinality(a.players) = 0 THEN stopTimer(Clear(a)) ELSE a

RECURSIVE AddVoters(_, _)
AddVoters(s, ps) ==
  IF ps = {} THEN s
  ELSE LET p == CHOOSE x \in ps : TRUE IN AddVoters(AddVoter(s, p), ps \ {p})

onMatchStartedKeepVoters(s) == AddVoters(s, s.players)

onMatchStarted(s) == AddVoters(RemoveAllVoters(s), s.players)

onPlayerFinished(s) == checkAutoAbort(s)

onMatchFinishedNoStop(s) == s

onMatchFinished(s) == stopTimer(s)

onCustomCommandAnyTime(s, player, auth, command) ==
  IF command = "!abort"
  THEN IF player = s.host THEN doAbort(s) ELSE vote(s, player)
  ELSE IF auth >= 2 /\ command = "*abort" THEN doAbort(s) ELSE s

onCustomCommand(s, player, auth, command) ==
  IF ~s.isMatching THEN s
  ELSE IF command = "!abort"
       THEN IF player = s.host THEN doAbort(s) ELSE vote(s, player)
       ELSE IF auth >= 2 /\ command = "*abort" THEN doAbort(s) ELSE s

\* the callback startTimer hands to setTimeout
timerCallbackKeepHandle(s) == IF s.abortTimer # Null THEN AbortMatch(s) ELSE s

timerCallback(s) == IF s.abortTimer # Null THEN doAbort(s) ELSE s

\* the status text, as its two fields: the timer word and the counter's own text
\* (the counter's votes and its requirement)
getPluginStatus(s) == [timer |-> IF s.abortTimer # Null THEN "active" ELSE "---", vote |-> <<count(s), required(s)>>]

\* ---- the lobby's own bookkeeping for an event, done before it emits the event ----
LobbyPlayerJoined(s, player) == [s EXCEPT !.players = @ \cup {player}, !.host = IF s.players = {} THEN player ELSE @]

LobbyHostChanged(s, player) == [s EXCEPT !.host = player]

LobbyPlayerLeft(s, player, finished) == [s EXCEPT !.players = @ \ {player}, !.playersInGame = @ \ {player}, !.playersFinished = finished, !.host = IF @ = player THEN NoPlayer ELSE @]

LobbyMatchStarted(s) == [s EXCEPT !.isMatching = TRUE, !.playersInGame = s.players, !.playersFinished = {}, !.abortCount = 0]

LobbyPlayerFinished(s, player) == [s EXCEPT !.playersFinished = @ \cup {player}]

LobbyMatchFinished(s) == [s EXCEPT !.isMatching = FALSE]

LobbyMatchAborted(s) == [s EXCEPT !.isMatching = FALSE]

\* ---- registerEvents: the handler each event is delivered to ---------------
RaisePlayerLeft(s, player, finished) == onPlayerLeft(LobbyPlayerLeft(s, player, finished), player)

RaiseMatchStarted(s) == onMatchStarted(LobbyMatchStarted(s))

RaisePlayerFinished(s, player) == onPlayerFinished(LobbyPlayerFinished(s, player))

RaiseMatchFinished(s) == onMatchFinished(LobbyMatchFinished(s))

RaiseReceivedCustomCommand(s, player, auth, command) == onCustomCommand(s, player, auth, command)

\* the runtime takes a due timer off its list and runs the callback
RunTimer(s, timer) == timerCallback([s EXCEPT !.pending = @ \ {timer}])

\* what the lobby may record as finished once a player left
FinishedAfterLeft(player) == {playersFinished, playersFinished \ {player}}

\* ---- the state machine ---------------------------------------------------
\* the state after a handler returned; the abort count and the number of scheduled
\* timers are capped here
Commit(r, e) ==
  /\ r.abortCount <= MaxAborts
  /\ NoTimer \notin r.pending
  /\ players' = r.players
  /\ host' = r.host
  /\ isMatching' = r.isMatching
  /\ playersInGame' = r.playersInGame
  /\ playersFinished' = r.playersFinished
  /\ abortCount' = r.abortCount
  /\ voters' = r.voters
  /\ votes' = r.votes
  /\ abortTimer' = r.abortTimer
  /\ pending' = r.pending
  /\ stepAborts' = r.stepAborts
  /\ stepMessages' = r.stepMessages
  /\ stepArms' = r.stepArms
  /\ stepStops' = r.stepStops
  /\ ev' = e
  /\ UNCHANGED <<option, canRecast, mapId, sent, recasts, changes, updates, spent>>

\* MapRecaster after construction, in a lobby that has no map selected yet
InitRecaster ==
  /\ canRecast = TRUE
  /\ mapId = 0
  /\ sent = <<>>
  /\ recasts = 0
  /\ changes = 0
  /\ updates = 0
  /\ spent = FALSE

Init ==
  /\ InitRecaster
  /\ option \in MatchAborterOption
  /\ players = {}
  /\ host = NoPlayer
  /\ isMatching = FALSE
  /\ playersInGame = {}
  /\ playersFinished = {}
  /\ abortCount = 0
  /\ voters = {}
  /\ votes = {}
  /\ abortTimer = Null
  /\ pending = {}
  /\ stepAborts = 0
  /\ stepMessages = 0
  /\ stepArms = 0
  /\ stepStops = 0
  /\ ev = "init"

\* a player joins the lobby; the plugin does not listen to it
PlayerJoined ==
  \E p \in Players \ players : Commit(LobbyPlayerJoined(Cur, p), "joined")

\* the lobby hands the host to another player; the plugin does not listen to it
HostChanged ==
  \E p \in players \ {host} : Commit(LobbyHostChanged(Cur, p), "host")

\* lobby.PlayerLeft
PlayerLeft ==
  \E p \in players : \E f \in FinishedAfterLeft(p) : Commit(RaisePlayerLeft(Cur, p, f), "left")

\* lobby.MatchStarted
MatchStarted ==
  /\ ~isMatching
  /\ players # {}
  /\ Commit(RaiseMatchStarted(Cur), "started")

\* lobby.PlayerFinished
PlayerFinished ==
  /\ isMatching
  /\ \E p \in playersInGame \ playersFinished : Commit(RaisePlayerFinished(Cur, p), "finished")

\* lobby.MatchFinished: the match ended by itself
MatchFinished ==
  /\ isMatching
  /\ Commit(RaiseMatchFinished(Cur), "matchFinished")

\* the server confirms an abort the lobby asked for; the plugin does not listen to it
AbortedMatch ==
  /\ isMatching
  /\ abortCount > 0
  /\ Commit(LobbyMatchAborted(Cur), "aborted")

\* lobby.ReceivedCustomCommand
ReceivedCustomCommand ==
  \E p \in players, a \in Authorities, c \in Commands : Commit(RaiseReceivedCustomCommand(Cur, p, a, c), "command")

\* the runtime runs the callback of a pending timer
TimerFire ==
  \E t \in pending : Commit(RunTimer(Cur, t), "timer")

Next ==
  \/ PlayerJoined
  \/ HostChanged
  \/ PlayerLeft
  \/ MatchStarted
  \/ PlayerFinished
  \/ MatchFinished
  \/ AbortedMatch
  \/ ReceivedCustomCommand
  \/ TimerFire

Spec == Init /\ [][Next]_vars

\* ---- the watchdog alone: startTimer, stopTimer and the callback, called in any order ----
StartTimerCall == Commit(startTimer(Cur), "startTimer")

StopTimerCall == Commit(stopTimer(Cur), "stopTimer")

NextWatchdog ==
  \/ StartTimerCall
  \/ StopTimerCall
  \/ TimerFire

SpecWatchdog == Init /\ [][NextWatchdog]_vars

\* ---- scenario 2: one match of five in-game participants, auto_abort_rate 0.8, delay 30000 ----
ScenarioPlayers == 1..5

InitScenario2 ==
  /\ InitRecaster
  /\ option \in [vote_rate : VoteRates, vote_min : VoteMins, auto_abort_rate : {FourFifths}, auto_abort_delay_ms : {30000}]
  /\ players = ScenarioPlayers
  /\ host = 1
  /\ isMatching = TRUE
  /\ playersInGame = ScenarioPlayers
  /\ playersFinished = {}
  /\ abortCount = 0
  /\ voters = ScenarioPlayers
  /\ votes = {}
  /\ abortTimer = Null
  /\ pending = {}
  /\ stepAborts = 0
  /\ stepMessages = 0
  /\ stepArms = 0
  /\ stepStops = 0
  /\ ev = "started"

NextScenario2 ==
  \/ PlayerFinished
  \/ PlayerLeft
  \/ TimerFire

SpecScenario2 == InitScenario2 /\ [][NextScenario2]_vars

\* ---- the requirements over all populations and policies: one match that starts with
\* MaxPopulation participants in game, who leave one by one ----
NumericPlayers == 1..MaxPopulation
NumericRates == {r \in [num : 1..MaxDen, den : 1..MaxDen] : r.num <= r.den}
NumericMins == 0..MaxMin

InitNumeric ==
  /\ InitRecaster
  /\ option \in [vote_rate : NumericRates, vote_min : NumericMins, auto_abort_rate : NumericRates, auto_abort_delay_ms : {30000}]
  /\ players = NumericPlayers
  /\ host = 1
  /\ isMatching = TRUE
  /\ playersInGame = NumericPlayers
  /\ playersFinished = {}
  /\ abortCount = 0
  /\ voters = NumericPlayers
  /\ votes = {}
  /\ abortTimer = Null
  /\ pending = {}
  /\ stepAborts = 0
  /\ stepMessages = 0
  /\ stepArms = 0
  /\ stepStops = 0
  /\ ev = "started"

NextNumeric == PlayerLeft

SpecNumeric == InitNumeric /\ [][NextNumeric]_vars

\* ---- MapRecaster (src/unnamed/part_000) ----
MapIds == 1..MaxMapId
ChatCommands == {"!update", "!info"}
BanchoResponseTypes == {"BeatmapChanged", "BeatmapChanging", "HostChanged"}

\* the recaster's view: its field, the lobby's map, and the messages sent by this event
CurRecaster == [canRecast |-> canRecast, mapId |-> mapId, sent |-> <<>>]

\* "!mp map " + this.lobby.mapId
MpMap(id) == <<"!mp map ", id>>

RecasterSendMessage(s, message) == [s EXCEPT !.sent = Append(@, message)]

onReceivedChatCommandKeepArmed(s, command, player) ==
  IF command = "!update" /\ s.canRecast THEN RecasterSendMessage(s, MpMap(s.mapId)) ELSE s

onReceivedChatCommand(s, command, player) ==
  IF command = "!update"
  THEN IF s.canRecast THEN RecasterSendMessage([s EXCEPT !.canRecast = FALSE], MpMap(s.mapId)) ELSE s
  ELSE s

onReceivedBanchoResponse(s, type) ==
  IF type = "BeatmapChanged" THEN [s EXCEPT !.canRecast = TRUE] ELSE s

\* the lobby records the newly selected map before it emits the response
LobbyBanchoResponse(s, type, id) == IF type = "BeatmapChanged" THEN [s EXCEPT !.mapId = id] ELSE s

RaiseReceivedBanchoResponse(s, type, id) == onReceivedBanchoResponse(LobbyBanchoResponse(s, type, id), type)

CommitRecaster(r, e) ==
  /\ canRecast' = r.canRecast
  /\ mapId' = r.mapId
  /\ sent' = r.sent
  /\ recasts' = recasts + Len(r.sent)
  /\ ev' = e
  /\ UNCHANGED <<option, players, host, isMatching, playersInGame, playersFinished, abortCount, voters, votes, abortTimer, pending, stepAborts, stepMessages, stepArms, stepStops>>

\* lobby.ReceivedChatCommand
ReceivedChatCommand ==
  \E command \in ChatCommands : \E player \in Players :
    /\ updates < MaxUpdates
    /\ LET r == onReceivedChatCommand(CurRecaster, command, player)
       IN /\ CommitRecaster(r, command)
          /\ spent' = (spent \/ Len(r.sent) > 0)
    /\ updates' = updates + 1
    /\ UNCHANGED changes

\* lobby.ReceivedBanchoResponse
ReceivedBanchoResponse ==
  \E type \in BanchoResponseTypes : \E id \in MapIds :
    /\ changes < MaxChanges
    /\ CommitRecaster(RaiseReceivedBanchoResponse(CurRecaster, type, id), type)
    /\ changes' = changes + (IF type = "BeatmapChanged" THEN 1 ELSE 0)
    /\ spent' = (spent /\ type # "BeatmapChanged")
    /\ UNCHANGED updates

NextRecaster ==
  \/ ReceivedChatCommand
  \/ ReceivedBanchoResponse

\* one lobby with a MapRecaster; the abort coordinator's fields keep their initial values
InitRecast ==
  /\ Init
  /\ option = [vote_rate |-> Half, vote_min |-> 0, auto_abort_rate |-> Half, auto_abort_delay_ms |-> 0]

SpecRecast == InitRecast /\ [][NextRecaster]_vars

\* ---- the claims --------------------------------------------------------
\* the progress signal of player p: the completed count the handler sees, and the count it needs
Completed(p) == Cardinality(playersFinished \cup {p})

Needed == Ceil(Cardinality(playersInGame), option.auto_abort_rate)

\* C1: in every match (from one match-start to the next) lobby.AbortMatch is invoked
\* at most once, whatever the interleaving of commands, votes, departures, progress
\* signals and timer firings.
C1_AbortAtMostOncePerMatch == abortCount <= 1

\* C2: during a match a !abort of a non-host player aborts in that step exactly when the
\* vote was accepted (the player is a new entry of the vote set) and the vote count then
\* reaches the threshold, whatever the watchdog's state; no other vote is cast.
C2_VoteAbortsIffPassed ==
  \A p \in players \ {host}, a \in Authorities :
    isMatching =>
      LET r == RaiseReceivedCustomCommand(Cur, p, a, "!abort")
          accepted == p \in r.votes \ votes
      IN /\ r.stepAborts = (IF accepted /\ Cardinality(r.votes) >= required(r) THEN 1 ELSE 0)
         /\ r.votes \subseteq votes \cup {p}
         /\ r.voters = voters

\* C2 witness: a vote was accepted by the last command (only an accepted vote reports
\* the progress), it reached the threshold and the match was aborted in that step.
C2_Witness == ev = "command" /\ stepMessages = 1 /\ stepAborts = 1 /\ passed(Cur) /\ isMatching

\* C3: during a match a !abort of the host, or a *abort of a caller with authority >= 2,
\* aborts in that step whatever the votes and the watchdog, and leaves no timer armed;
\* a *abort of a caller with authority < 2 triggers nothing.
C3_PrivilegedAbortsAtOnce ==
  \A p \in players, a \in Authorities :
    isMatching =>
      LET h == RaiseReceivedCustomCommand(Cur, p, a, "!abort")
          e == RaiseReceivedCustomCommand(Cur, p, a, "*abort")
      IN /\ p = host => h.stepAborts = 1 /\ h.abortTimer = Null /\ h.pending = {}
         /\ a >= 2 => e.stepAborts = 1 /\ e.abortTimer = Null /\ e.pending = {}
         /\ a < 2 => e.stepAborts = 0 /\ e.abortTimer = abortTimer /\ e.votes = votes

\* C3 witness: the last command aborted the match although no vote was accepted by it and
\* the votes do not pass.
C3_Witness == ev = "command" /\ stepAborts = 1 /\ stepMessages = 0 /\ votes # {} /\ ~passed(Cur) /\ stepStops = 1 /\ abortTimer = Null

\* C4: a command received while no match is in progress, and any command other than
\* !abort and *abort, changes nothing: no vote, no roster change, no timer change, no abort.
C4_OutOfWindowCommandIgnored ==
  \A p \in players, a \in Authorities, c \in Commands :
    (~isMatching \/ c \notin {"!abort", "*abort"}) => RaiseReceivedCustomCommand(Cur, p, a, c) = Cur

\* C4 witness: a command arrived after a match ended with its roster still registered.
C4_Witness == ev = "command" /\ ~isMatching /\ voters # {} /\ host \in players /\ stepAborts = 0

\* C5: once the abort was triggered in a match, a vote command arriving before the next
\* match-start is ignored: the vote set does not change and no abort is invoked.
C5_VoteAfterAbortIgnored ==
  \A p \in players \ {host}, a \in Authorities :
    abortCount >= 1 =>
      LET r == RaiseReceivedCustomCommand(Cur, p, a, "!abort")
      IN r.votes = votes /\ r.stepAborts = 0

\* C6: a timer whose handle stopTimer dropped never invokes the abort: if its callback
\* could still run (it is scheduled and is not the stored handle), it would not abort.
C6_DisarmedTimerNeverAborts ==
  \A t \in pending : t # abortTimer => RunTimer(Cur, t).stepAborts = 0

\* C6 witness: the match finished while the watchdog was armed, and stopTimer dropped
\* the pending timer.
C6_Witness == ev = "matchFinished" /\ stepStops = 1 /\ abortTimer = Null

\* C7: arming while armed replaces the timer: every scheduled timer is the one of the most
\* recent arm, so no earlier arm can invoke the abort.
C7_ArmReplaces == \A t \in pending : t = abortTimer

\* C7 witness: startTimer ran while a timer was armed; it cleared that one and set a new one.
C7_Witness == ev = "startTimer" /\ stepStops = 1 /\ stepArms = 1 /\ pending = {abortTimer}

\* C8: on a progress signal with auto_abort_delay_ms > 0 the watchdog is armed exactly when
\* it was idle and completed >= ceil(inGame * auto_abort_rate); an armed watchdog is neither
\* replaced nor postponed; with auto_abort_delay_ms = 0 the watchdog is never armed.
C8_ProgressArmsWatchdog ==
  /\ option.auto_abort_delay_ms = 0 => abortTimer = Null /\ pending = {}
  /\ \A p \in playersInGame \ playersFinished :
       isMatching =>
         LET r == RaisePlayerFinished(Cur, p)
         IN IF option.auto_abort_delay_ms > 0 /\ abortTimer = Null /\ Completed(p) >= Needed
            THEN r.stepArms = 1 /\ r.abortTimer # Null /\ r.pending = {r.abortTimer}
            ELSE r.stepArms = 0 /\ r.stepStops = 0 /\ r.abortTimer = abortTimer /\ r.pending = pending

\* C8 witness: the last progress signal armed the watchdog.
C8_Witness == ev = "finished" /\ stepArms = 1 /\ abortTimer # Null /\ Cardinality(playersFinished) >= autoAbortRequired(Cur)

\* C9 as stated: with auto_abort_delay_ms = 0 a progress signal that makes
\* completed >= ceil(inGame * auto_abort_rate) fires the abort in that step.
C9_ZeroDelayFiresAtOnce ==
  \A p \in playersInGame \ playersFinished :
    (isMatching /\ option.auto_abort_delay_ms = 0 /\ Completed(p) >= Needed) => RaisePlayerFinished(Cur, p).stepAborts = 1

\* C9 amended: with auto_abort_delay_ms = 0 a progress signal that makes
\* completed >= ceil(inGame * auto_abort_rate) neither fires the abort nor arms the watchdog.
C9_ZeroDelayDisables ==
  \A p \in playersInGame \ playersFinished :
    (isMatching /\ option.auto_abort_delay_ms = 0 /\ Completed(p) >= Needed) =>
      LET r == RaisePlayerFinished(Cur, p)
      IN r.stepAborts = 0 /\ r.abortCount = abortCount /\ r.stepArms = 0 /\ r.abortTimer = Null

\* C9 witness: with a delay of 0 the last progress signal met the requirement and nothing fired.
C9_Witness == ev = "finished" /\ option.auto_abort_delay_ms = 0 /\ Cardinality(playersFinished) >= autoAbortRequired(Cur) /\ stepAborts = 0 /\ abortTimer = Null

\* C10: when a participant leaves during a match they are removed from the roster and the
\* vote set, and the abort is triggered in that step exactly when the remaining votes are
\* not zero and meet the threshold recomputed on the shrunken roster.
C10_LeaveReevaluatesVotes ==
  \A p \in players : \A f \in FinishedAfterLeft(p) :
    isMatching =>
      LET r == RaisePlayerLeft(Cur, p, f)
          rest == votes \ {p}
          need == Max(Ceil(Cardinality(voters \ {p}), option.vote_rate), option.vote_min)
      IN /\ p \notin r.voters /\ p \notin r.votes
         /\ r.voters = voters \ {p}
         /\ r.stepAborts = (IF rest # {} /\ Cardinality(rest) >= need THEN 1 ELSE 0)

\* C10 witness: a participant left, nobody voted in that step, and the votes that remained
\* aborted the match.
C10_Witness == ev = "left" /\ stepAborts = 1 /\ stepMessages = 0 /\ votes # {} /\ isMatching
\* the in-game count and the requirement the handler sees once player p left
NeededAfterLeft(p) == Ceil(Cardinality(playersInGame \ {p}), option.auto_abort_rate)

\* C11 as stated: when a participant leaves during a match with the watchdog idle and the
\* completed count is >= ceil(inGame * auto_abort_rate) on the reduced in-game count, the
\* watchdog is armed in that step.
C11_ShrinkageArms ==
  \A p \in players : \A f \in FinishedAfterLeft(p) :
    (isMatching /\ abortTimer = Null /\ Cardinality(f) >= NeededAfterLeft(p)) =>
      RaisePlayerLeft(Cur, p, f).abortTimer # Null

\* C11 amended: the same, provided auto_abort_delay_ms > 0 and the lobby is not left empty.
C11_ShrinkageArmsWhenEnabled ==
  \A p \in players : \A f \in FinishedAfterLeft(p) :
    (isMatching /\ abortTimer = Null /\ Cardinality(f) >= NeededAfterLeft(p) /\ option.auto_abort_delay_ms > 0 /\ players \ {p} # {}) =>
      LET r == RaisePlayerLeft(Cur, p, f)
      IN r.stepArms = 1 /\ r.abortTimer # Null /\ r.pending = {r.abortTimer}

\* C11 witness: no abort and no arm happened in this match until a participant left, and
\* that departure alone armed the watchdog.
C11_Witness == ev = "left" /\ stepArms = 1 /\ stepAborts = 0 /\ abortCount = 0 /\ abortTimer # Null /\ isMatching /\ players # {}

\* C12 as stated (scenario 2): the watchdog is armed (4 of 5 completed); when departures
\* bring the in-game count to 3 the requirement becomes 3, already met, and the abort fires
\* in that step instead of waiting for the pending timer.
C12_ShrinkageFiresAtOnce ==
  \A p \in players : \A f \in FinishedAfterLeft(p) :
    (isMatching /\ abortTimer # Null /\ Cardinality(playersInGame \ {p}) = 3 /\ Cardinality(f) >= NeededAfterLeft(p)) =>
      RaisePlayerLeft(Cur, p, f).stepAborts = 1

\* C12 amended (scenario 2): with five in game the watchdog arms exactly on the 4th
\* completion; a departure while it is armed (down to 4 or to 3 in game) changes nothing
\* as long as someone stays in the lobby: no abort, the same timer stays pending.
C12_ShrinkageKeepsTimer ==
  /\ \A p \in playersInGame \ playersFinished :
       (isMatching /\ Cardinality(playersInGame) = 5 /\ abortTimer = Null /\ abortCount = 0) =>
         RaisePlayerFinished(Cur, p).stepArms = (IF Completed(p) >= 4 THEN 1 ELSE 0)
  /\ \A p \in players : \A f \in FinishedAfterLeft(p) :
       (isMatching /\ abortTimer # Null /\ players \ {p} # {}) =>
         LET r == RaisePlayerLeft(Cur, p, f)
         IN r.stepAborts = 0 /\ r.stepArms = 0 /\ r.stepStops = 0 /\ r.abortTimer = abortTimer /\ r.pending = pending

\* C12 witness: two of the five left, three are in game, at least three completions are
\* recorded, and the timer armed on the 4th completion is still pending with no abort made.
C12_Witness == ev = "left" /\ isMatching /\ Cardinality(playersInGame) = 3 /\ Cardinality(playersFinished) >= 3 /\ abortTimer # Null /\ pending = {abortTimer} /\ abortCount = 0

\* C13 as stated: a participant-left event during a match that leaves the Roster (the
\* registered voters) empty ends with the VoteSet empty and no timer pending, even when
\* participants who are not in the Roster remain in the lobby.
C13_EmptyRosterDisarms ==
  \A p \in players : \A f \in FinishedAfterLeft(p) :
    (isMatching /\ p \in voters /\ voters \ {p} = {}) =>
      LET r == RaisePlayerLeft(Cur, p, f)
      IN r.votes = {} /\ r.abortTimer = Null /\ r.pending = {}

\* C13 amended: a participant-left event during a match that leaves the lobby empty ends
\* with the VoteSet empty and no timer pending, whatever the vote and auto-arm
\* re-evaluation did earlier in the same step.
C13_EmptyLobbyDisarms ==
  \A p \in players : \A f \in FinishedAfterLeft(p) :
    (isMatching /\ players \ {p} = {}) =>
      LET r == RaisePlayerLeft(Cur, p, f)
      IN r.votes = {} /\ r.abortTimer = Null /\ r.pending = {}

\* C13 witness: the last participant left during a match; the auto-arm re-evaluation armed
\* the watchdog in that step and the empty-lobby branch disarmed it again.
C13_Witness == ev = "left" /\ isMatching /\ players = {} /\ stepArms = 1 /\ stepStops = 1 /\ votes = {} /\ abortTimer = Null /\ pending = {}

\* C14: processing match-finished leaves the watchdog Idle: the handle is null and no timer
\* callback stays scheduled, so a watchdog armed during that match can no longer invoke the
\* abort; the handler itself invokes no abort.
C14_MatchFinishedDisarms ==
  /\ isMatching =>
       LET r == RaiseMatchFinished(Cur)
       IN r.abortTimer = Null /\ r.pending = {} /\ r.stepAborts = 0 /\ r.abortCount = abortCount
  /\ ev = "matchFinished" => (abortTimer = Null /\ \A t \in pending : RunTimer(Cur, t).stepAborts = 0)

\* C14 witness: a match in which no abort was requested finished while the watchdog was
\* armed; the timer was cleared and nothing is scheduled any more.
C14_Witness == ev = "matchFinished" /\ ~isMatching /\ stepStops = 1 /\ abortCount = 0 /\ pending = {} /\ abortTimer = Null

\* C15: the VoteSet is empty right after a step that invoked the abort (by vote, privileged
\* command or watchdog) and right after match-finished was processed, hence whenever no
\* match is running.
C15_VotesClearedOnResolution ==
  /\ stepAborts > 0 => votes = {}
  /\ ev = "matchFinished" => votes = {}
  /\ ~isMatching => votes = {}

\* C16: a match-start replaces the Roster by exactly the participants now in the lobby and
\* empties the VoteSet, whatever voters and votes an earlier match left behind, so the vote
\* count the new match starts from is zero.
C16_MatchStartResetsVoting ==
  /\ (~isMatching /\ players # {}) =>
       LET r == RaiseMatchStarted(Cur)
       IN r.voters = players /\ r.votes = {} /\ count(r) = 0 /\ ~passed(r)
  /\ ev = "started" => (voters = players /\ votes = {})

\* C16 witness: a match started with a fresh Roster and no votes although an earlier match
\* had run (its watchdog timer is still armed, so that match was ended by an abort).
C16_Witness == ev = "started" /\ isMatching /\ voters = players /\ votes = {} /\ abortTimer # Null /\ abortCount = 0

\* C17: the recaster is a one-shot guard per selection window. A !update sends exactly one
\* "!mp map <mapId>" and spends the guard iff no recast was sent since the last
\* BeatmapChanged (or construction); a !update while spent, and any other command, sends
\* nothing; only BeatmapChanged re-arms. So recasts <= 1 + changes, and the first !update
\* after each BeatmapChanged is executed.
C17_OneShotPerWindow ==
  /\ canRecast = ~spent
  /\ recasts <= 1 + changes
  /\ \A player \in Players :
       LET r == onReceivedChatCommand(CurRecaster, "!update", player)
       IN IF spent THEN r.sent = <<>> /\ r.canRecast = FALSE
          ELSE r.sent = <<MpMap(mapId)>> /\ r.canRecast = FALSE
  /\ \A player \in Players : \A command \in ChatCommands \ {"!update"} :
       LET r == onReceivedChatCommand(CurRecaster, command, player)
       IN r.sent = <<>> /\ r.canRecast = canRecast
  /\ \A type \in BanchoResponseTypes : \A id \in MapIds :
       LET r == RaiseReceivedBanchoResponse(CurRecaster, type, id)
       IN r.sent = <<>> /\ r.canRecast = (canRecast \/ type = "BeatmapChanged")
  /\ ev = "BeatmapChanged" => \A player \in Players : onReceivedChatCommand(CurRecaster, "!update", player).sent = <<MpMap(mapId)>>

\* C17 witness: a !update was ignored because the guard was spent, in the second selection
\* window in which a recast was sent (two recasts, so a BeatmapChanged re-armed in between).
C17_Witness == ev = "!update" /\ sent = <<>> /\ ~canRecast /\ recasts = 2 /\ changes >= 1 /\ mapId \in MapIds

\* k is the least integer that is >= n * rate and >= min
LeastInteger(k, n, rate, min) ==
  /\ k \in Nat
  /\ k * rate.den >= n * rate.num
  /\ k >= min
  /\ (k - 1) * rate.den < n * rate.num \/ k - 1 < min

\* C18: for every in-game population n and every policy, the vote threshold is
\* ceil(max(n x vote_rate, vote_min)) and the auto-abort requirement is ceil(n x auto_abort_rate),
\* both taken from the live population, also right after a departure changed it
\* (n = 8, rate 0.5, minimum 2 gives 4; n = 5, rate 0.8 gives 4; n = 0 gives the minimum).
C18_RequirementsFollowPopulation ==
  LET n == Cardinality(playersInGame)
  IN /\ LeastInteger(voteRequired(Cur), n, option.vote_rate, option.vote_min)
     /\ LeastInteger(autoAbortRequired(Cur), n, option.auto_abort_rate, 0)
     /\ (n = 8 /\ option.vote_rate = Half /\ option.vote_min = 2) => voteRequired(Cur) = 4
     /\ (n = 5 /\ option.auto_abort_rate = FourFifths) => autoAbortRequired(Cur) = 4
     /\ n = 0 => (voteRequired(Cur) = option.vote_min /\ autoAbortRequired(Cur) = 0)
     /\ \A p \in players : \A f \in FinishedAfterLeft(p) :
          LET r == LobbyPlayerLeft(Cur, p, f)
              m == Cardinality(playersInGame \ {p})
          IN /\ LeastInteger(voteRequired(r), m, option.vote_rate, option.vote_min)
             /\ LeastInteger(autoAbortRequired(r), m, option.auto_abort_rate, 0)

\* C18 witness: departures brought the in-game population from 8 to 5; with rate 0.8 the
\* auto-abort requirement is now 4 and with rate 0.5, minimum 2 the vote threshold is 3.
C18_Witness == ev = "left" /\ Cardinality(playersInGame) = 5 /\ option.auto_abort_rate = FourFifths /\ autoAbortRequired(Cur) = 4 /\ option.vote_rate = Half /\ option.vote_min = 2 /\ voteRequired(Cur) = 3

\* C19: the watchdog never outlives its match: whenever no match is in progress, and right
\* after every match-start, no abort timer is scheduled and the handle is null.
C19_WatchdogNeverOutlivesMatch ==
  /\ ~isMatching => (pending = {} /\ abortTimer = Null)
  /\ ev = "started" => (pending = {} /\ abortTimer = Null)

\* C20: the watchdog is single-slot: between handlers at most one abort timer is scheduled,
\* the handle abortTimer is non-null exactly when one is, and it is that timer; once the
\* timer fired and its callback ran the handle is null and nothing is scheduled; so the
\* status reports the timer as active exactly when a fire is still pending.
C20_SingleSlot ==
  /\ Cardinality(pending) <= 1
  /\ abortTimer # Null <=> Cardinality(pending) = 1
  /\ abortTimer # Null => pending = {abortTimer}
  /\ \A t \in pending :
       LET r == RunTimer(Cur, t)
       IN r.abortTimer = Null /\ r.pending = {} /\ getPluginStatus(r).timer = "---"
  /\ getPluginStatus(Cur).timer = "active" <=> pending # {}
  /\ getPluginStatus(Cur).timer \in {"active", "---"}

\* C20 witness: the timer fired, its callback invoked the abort and dropped the handle;
\* nothing is scheduled and the status no longer reports the timer as active.
C20_Witness == ev = "timer" /\ stepAborts = 1 /\ abortTimer = Null /\ pending = {} /\ getPluginStatus(Cur).timer = "---"

====
